---- MODULE Spec2Model ----
(***************************************************************************)
(* Credential verification and reset-token subsystem of cot-basic-auth.    *)
(*                                                                         *)
(*   src/src/utils.rs                  Base36                              *)
(*   src/src/auth.rs                   User, User::authenticate            *)
(*   src/src/forms/forgot_password.rs  ResetToken, forgot_password,        *)
(*                                     reset_password_confirm              *)
(*                                                                         *)
(* Text is a sequence of one-character strings.  Machine integers are      *)
(* scaled down from 64 bits to IntBits+1 bits so that TLC can count them;  *)
(* every overflow test of the code is kept, against the scaled limits.     *)
(* The store answers every query and save; its failures, which the code    *)
(* hands on as AuthError::BackendError, are not modelled.  The password    *)
(* hasher and the Debug text of a hash belong to the cot crate and follow  *)
(* sections 4.1 and 4.5 of the specification.                              *)
(***************************************************************************)
EXTENDS Integers, Sequences, FiniteSets, TLC

VARIABLES
    db,        \* the user table: id -> User row
    now,       \* Utc::now().timestamp()
    ticks,     \* how often the clock has advanced
    salts,     \* salts drawn so far by the password hasher
    pc,        \* per request task: where its handler is suspended
    local,     \* per request task: the handler's local variables
    result,    \* per request task: what its last handler returned
    outbox,    \* reset links printed by forgot_password
    commits,   \* password changes saved by reset_password_confirm
    call,      \* the last direct call of ResetToken::check_token
    codec      \* the last direct call of Base36

vars == <<db, now, ticks, salts, pc, local, result, outbox, commits, call, codec>>

----------------------------------------------------------------------------
\* Bounds of the model.

\* i64 is modelled with IntBits value bits, u64 with IntBits + 1.
IntBits == 15
\* How often the clock advances in one behaviour.
MaxTicks == 2
\* How many fresh salts the hasher draws after the initial rows were hashed.
MaxSalts == 2
\* How many reset links forgot_password prints in one behaviour.
MaxLinks == 1

I64_MAX == 2 ^ IntBits - 1
I64_MIN == 0 - 2 ^ IntBits
U64_MAX == 2 ^ (IntBits + 1) - 1

----------------------------------------------------------------------------
\* Program constants.

BASE36_RADIX == 36
USERNAME_MAX_LEN == 254
RESET_TIMEOUT_SECS == 3600
SIG_HEX_LEN == 20
RESET_SECRET == "random-secret"

----------------------------------------------------------------------------
\* Text helpers.

LowerDigits ==
    << "0", "1", "2", "3", "4", "5", "6", "7", "8", "9",
       "a", "b", "c", "d", "e", "f", "g", "h", "i", "j", "k", "l", "m",
       "n", "o", "p", "q", "r", "s", "t", "u", "v", "w", "x", "y", "z" >>

UpperLetters ==
    << "A", "B", "C", "D", "E", "F", "G", "H", "I", "J", "K", "L", "M",
       "N", "O", "P", "Q", "R", "S", "T", "U", "V", "W", "X", "Y", "Z" >>

\* The digit test with the radix taken to be ten.
to_digit_radix10(c) ==
    IF \E i \in 1..10 : LowerDigits[i] = c
    THEN (CHOOSE i \in 1..10 : LowerDigits[i] = c) - 1
    ELSE 0 - 1

\* char::to_digit(36): 0-9, a-z and A-Z are digits; -1 stands for None.
to_digit(c) ==
    IF \E i \in 1..Len(LowerDigits) : LowerDigits[i] = c
    THEN (CHOOSE i \in 1..Len(LowerDigits) : LowerDigits[i] = c) - 1
    ELSE IF \E i \in 1..Len(UpperLetters) : UpperLetters[i] = c
         THEN (CHOOSE i \in 1..Len(UpperLetters) : UpperLetters[i] = c) + 9
         ELSE 0 - 1

\* The low `width` digits of n, zero for the places n does not reach.
RECURSIVE to_str_radix_width(_, _)
to_str_radix_width(n, width) ==
    IF width = 0
    THEN << >>
    ELSE Append(to_str_radix_width(n \div BASE36_RADIX, width - 1),
                LowerDigits[(n % BASE36_RADIX) + 1])

\* A writer of fixed width: thirteen digits, the width of u64::MAX.
to_str_radix_padded(n) == to_str_radix_width(n, 13)

\* BigUint::to_str_radix(36): shortest form, digits 0-9a-z, "0" for zero.
RECURSIVE to_str_radix(_)
to_str_radix(n) ==
    IF n < BASE36_RADIX
    THEN << LowerDigits[n + 1] >>
    ELSE Append(to_str_radix(n \div BASE36_RADIX), LowerDigits[(n % BASE36_RADIX) + 1])

\* Base36::encode
Base36_encode(num) == to_str_radix(num)

\* The digit loop of i64::from_str_radix: the value built so far, or an
\* error as soon as a character is no digit or the next step overflows.
RECURSIVE parse_digits(_, _, _)
parse_digits(s, acc, positive) ==
    IF s = << >>
    THEN [ok |-> TRUE, val |-> acc]
    ELSE LET d == to_digit(Head(s))
         IN  IF d < 0
             THEN [ok |-> FALSE, val |-> 0]
             ELSE LET next == IF positive
                              THEN acc * BASE36_RADIX + d
                              ELSE acc * BASE36_RADIX - d
                  IN  IF next > I64_MAX \/ next < I64_MIN
                      THEN [ok |-> FALSE, val |-> 0]
                      ELSE parse_digits(Tail(s), next, positive)

\* i64::from_str_radix(s, 36): an optional sign, then at least one digit.
i64_from_str_radix(s) ==
    IF s = << >>
    THEN [ok |-> FALSE, val |-> 0]
    ELSE IF Head(s) \in {"+", "-"}
         THEN IF Len(s) = 1
              THEN [ok |-> FALSE, val |-> 0]
              ELSE parse_digits(Tail(s), 0, Head(s) = "+")
         ELSE parse_digits(s, 0, TRUE)

\* str::split_once("-"): the position of the first '-', 0 when there is none.
first_dash(token) ==
    IF \E i \in 1..Len(token) : token[i] = "-"
    THEN CHOOSE i \in 1..Len(token) :
             token[i] = "-" /\ \A j \in 1..(i - 1) : token[j] # "-"
    ELSE 0

\* The text with every listed position's character replaced.
set_char(s, i, c) == [s EXCEPT ![i] = c]

HexDigits == SubSeq(LowerDigits, 1, 16)

\* n as exactly `width` lower-case hex digits.
RECURSIVE hex(_, _)
hex(n, width) ==
    IF width = 0
    THEN << >>
    ELSE Append(hex(n \div 16, width - 1), HexDigits[(n % 16) + 1])

zeros(k) == [i \in 1..k |-> "0"]

----------------------------------------------------------------------------
\* Data model.

Ids == {1, 2}
Procs == {1, 2}
Passwords == << "correct-horse", "hunter2" >>
Secrets == << "random-secret", "s3cret" >>
HashParams == << "legacy", "current" >>

index_of(seq, x) == CHOOSE i \in 1..Len(seq) : seq[i] = x
Range(seq) == {seq[i] : i \in 1..Len(seq)}

\* cot::auth::PasswordHash.  The stored text names the algorithm parameters,
\* the salt and the digest; the digest is a function of the raw password, the
\* salt and the parameters, so the raw password stands for it here.
PasswordHash(pw, salt, params) == [pw |-> pw, salt |-> salt, params |-> params]

\* PasswordHash::from_password: current parameters, a fresh salt.
from_password(pw, salt) == PasswordHash(pw, salt, "current")

\* PasswordHash::verify: Ok, OkObsolete(new_hash) or Invalid.  `salt` is the
\* salt a recomputed hash would get.
verify(hash, pw, salt) ==
    IF hash.pw # pw
    THEN [tag |-> "Invalid", new_hash |-> hash]
    ELSE IF hash.params = "current"
         THEN [tag |-> "Ok", new_hash |-> hash]
         ELSE [tag |-> "OkObsolete", new_hash |-> from_password(pw, salt)]

\* A row of the user table (struct User).
User(id, username, name, password, email) ==
    [id |-> id, username |-> username, name |-> name,
     password |-> password, email |-> email]

\* Text is carried as a name and its length where only the length is read.
Username(text, len) == [text |-> text, len |-> len]

StoredUsernames == [i \in Ids |-> IF i = 1 THEN Username("alice", 5) ELSE Username("bob", 3)]
StoredEmails == [i \in Ids |-> IF i = 1 THEN "alice@example.com" ELSE "bob@example.com"]
StoredNames == [i \in Ids |-> IF i = 1 THEN "Alice" ELSE "Bob"]

\* Option<T>: the empty set is None, a singleton is Some.
None == {}
Some(x) == {x}
unwrap(opt) == CHOOSE x \in opt : TRUE

----------------------------------------------------------------------------
\* Base36::decode (utils.rs).

\* Result<Option<u64>, ParseBigIntError>
DecodeOk(opt) == [tag |-> "Ok", val |-> opt, err |-> ""]
DecodeErr(kind) == [tag |-> "Err", val |-> None, err |-> kind]

\* The digit loop of BigUint::from_str_radix(s, 36): the value of the
\* numeral, or -1 where a character is no digit.  A BigUint has no upper
\* limit; to_u64 is its only reader here, so every value beyond u64 is
\* carried as U64_MAX + 1.
RECURSIVE biguint_digits(_, _)
biguint_digits(s, acc) ==
    IF s = << >>
    THEN acc
    ELSE LET d == to_digit(Head(s))
         IN  IF d < 0
             THEN 0 - 1
             ELSE LET next == acc * BASE36_RADIX + d
                  IN  biguint_digits(Tail(s),
                                     IF next > U64_MAX THEN U64_MAX + 1 ELSE next)

\* BigUint::from_str_radix(s, BASE36_RADIX) on texts without sign or
\* underscore: Err(Empty) for the empty text, Err(InvalidDigit) where a
\* character is no digit.
BigUint_from_str_radix(s) ==
    IF s = << >>
    THEN [ok |-> FALSE, err |-> "Empty", val |-> 0]
    ELSE LET v == biguint_digits(s, 0)
         IN  IF v < 0
             THEN [ok |-> FALSE, err |-> "InvalidDigit", val |-> 0]
             ELSE [ok |-> TRUE, err |-> "", val |-> v]

\* BigUint::to_u64
to_u64(v) == IF v <= U64_MAX THEN Some(v) ELSE None

\* Base36::decode: the ? hands the parse error on, to_u64 gives the Option.
Base36_decode(s) ==
    LET parsed == BigUint_from_str_radix(s)
    IN  IF ~parsed.ok
        THEN DecodeErr(parsed.err)
        ELSE DecodeOk(to_u64(parsed.val))

----------------------------------------------------------------------------
\* ResetToken (forgot_password.rs).

\* {:?} of the password hash inside the signed text.
debug_fmt(hash) == << "PasswordHash(", hash, ")" >>

\* A mint that leaves the password hash out of the signed text.
signed_data_without_hash(user, ts) ==
    << user.id, debug_fmt(PasswordHash(Passwords[1], 0, "current")), ts >>

\* format!("{}{:?}{}", user.id(), &user.password_hash(), ts).  The three
\* parts are kept apart: the middle one starts with a letter and ends with
\* a bracket, so the concatenation is read back in one way only.
signed_data(user, ts) == << user.id, debug_fmt(user.password), ts >>

\* hex::encode of HMAC-SHA256(secret, data): 64 hex digits, taken to be free
\* of collisions: the digits spell the key and the data on the model's
\* domain.
hmac_sha256_hex(secret, data) ==
    LET h == data[2][2]
    IN  hex(index_of(Secrets, secret), 1) \o hex(data[1], 1)
        \o hex(index_of(Passwords, h.pw), 1) \o hex(index_of(HashParams, h.params), 1)
        \o hex(h.salt, 2) \o hex(data[3], 5) \o zeros(53)

\* ResetToken::make_token_with_timestamp
make_token_with_timestamp(user, secret, ts) ==
    LET ts_b36 == Base36_encode(ts % (U64_MAX + 1))
        data == signed_data(user, ts)
        short == SubSeq(hmac_sha256_hex(secret, data), 1, SIG_HEX_LEN)
    IN  ts_b36 \o << "-" >> \o short

\* ResetToken::make_token at clock reading `clock`.
make_token(user, secret, clock) == make_token_with_timestamp(user, secret, clock)

\* The age test with the upper limit taken strictly.
age_rejected_strict(age, timeout_secs) == age < 0 \/ age >= timeout_secs

\* The age test of check_token.
age_rejected(age, timeout_secs) == age < 0 \/ age > timeout_secs

\* A comparison that looks at the signature alone.
token_matches_sig_only(expected, ts_b36, sig) ==
    SubSeq(expected, first_dash(expected) + 1, Len(expected)) = sig

\* expected == format!("{ts_b36}-{sig}")
token_matches(expected, ts_b36, sig) == expected = ts_b36 \o << "-" >> \o sig

\* A check that accepts every token text.
check_token_accept_all(user, token, secret, timeout_secs, clock) == "true"

\* ResetToken::check_token at clock reading `clock`: "true", "false", or
\* "panic" where the unwrap of the timestamp parse aborts the task.
check_token(user, token, secret, timeout_secs, clock) ==
    LET i == first_dash(token)
    IN  IF i = 0
        THEN "false"
        ELSE LET ts_b36 == SubSeq(token, 1, i - 1)
                 sig == SubSeq(token, i + 1, Len(token))
                 parsed == i64_from_str_radix(ts_b36)
             IN  IF ~parsed.ok
                 THEN "panic"
                 ELSE LET ts == parsed.val
                          age == clock - ts
                      IN  IF age_rejected(age, timeout_secs)
                          THEN "false"
                          ELSE IF token_matches(make_token_with_timestamp(user, secret, ts),
                                                ts_b36, sig)
                               THEN "true"
                               ELSE "false"

----------------------------------------------------------------------------
\* The store (cot::db, reached through query! and Model::save).

\* query!(User, $username == username_limited).get(db)
find_by_username(table, username) ==
    {table[i] : i \in {j \in Ids : table[j].username = username}}

\* query!(User, $email == email).get(db)
find_by_email(table, email) ==
    {table[i] : i \in {j \in Ids : table[j].email = email}}

\* User::get_by_id
get_by_id(table, id) == {table[i] : i \in {j \in Ids : j = id}}

\* user.save(db): the whole row is written under its primary key.
save(table, user) == [table EXCEPT ![user.id] = user]

\* User::set_password
set_password(user, pw, salt) == [user EXCEPT !.password = from_password(pw, salt)]

----------------------------------------------------------------------------
\* User::authenticate (auth.rs).

\* cot::auth::Result<Option<User>>
\* Err carries the AuthError variant and the error it wraps.
AuthOk(user_opt) == [tag |-> "Ok", user |-> user_opt, err |-> "", cause |-> ""]
AuthErr(variant, cause) == [tag |-> "Err", user |-> None, err |-> variant, cause |-> cause]

\* LimitedString::<254>::new(username): the length test.
fits_limited_string(username) == username.len <= USERNAME_MAX_LEN

\* The rehash branch with the assignment of the new hash left out.
rehash_skipped(user, new_hash) == user

\* user.password = new_hash
rehash(user, new_hash) == [user EXCEPT !.password = new_hash]

\* The match with the Invalid arm raising an error.
match_verify_invalid_err(v, user) ==
    CASE v.tag = "Ok" ->
            [ret |-> AuthOk(Some(user)), save |-> FALSE, path |-> "ok"]
      [] v.tag = "OkObsolete" ->
            [ret |-> AuthOk(Some(rehash(user, v.new_hash))), save |-> TRUE, path |-> "rehash"]
      [] v.tag = "Invalid" ->
            [ret |-> AuthErr("InvalidPassword", ""), save |-> FALSE, path |-> "invalid_password"]

\* The match with the OkObsolete arm returning without the save.
match_verify_no_save(v, user) ==
    CASE v.tag = "Ok" ->
            [ret |-> AuthOk(Some(user)), save |-> FALSE, path |-> "ok"]
      [] v.tag = "OkObsolete" ->
            [ret |-> AuthOk(Some(rehash(user, v.new_hash))), save |-> FALSE, path |-> "rehash"]
      [] v.tag = "Invalid" ->
            [ret |-> AuthOk(None), save |-> FALSE, path |-> "invalid_password"]

\* match password_hash.verify(credentials.password()): what is returned, and
\* whether the row is saved first.
match_verify(v, user) ==
    CASE v.tag = "Ok" ->
            [ret |-> AuthOk(Some(user)), save |-> FALSE, path |-> "ok"]
      [] v.tag = "OkObsolete" ->
            [ret |-> AuthOk(Some(rehash(user, v.new_hash))), save |-> TRUE, path |-> "rehash"]
      [] v.tag = "Invalid" ->
            [ret |-> AuthOk(None), save |-> FALSE, path |-> "invalid_password"]

\* AuthError::backend_error(CreateUserError::UsernameTooLong(username.len()))
username_too_long(len) == AuthErr("BackendError", "UsernameTooLong")

----------------------------------------------------------------------------
\* Request tasks.

\* A request to the reset route: the method, the path parameters (Options)
\* and the two fields of ResetPasswordConfirmForm.
ResetRequest(method, token, uid, password1, password2) ==
    [method |-> method, token |-> token, uid |-> uid,
     password1 |-> password1, password2 |-> password2]

NoRequest == ResetRequest("", None, None, "", "")

IdleLocal ==
    [read |-> None, user |-> None, password |-> "", token |-> << >>,
     request |-> NoRequest]

\* What a finished handler leaves behind: the value it returned (tag, user,
\* err), and, for the properties below, the branch it took (path), whether it queried the
\* store, and the inputs that branch read.
Outcome(op, path, ret, queried, read, password, token) ==
    [op |-> op, path |-> path, tag |-> ret.tag, user |-> ret.user, err |-> ret.err,
     cause |-> ret.cause, queried |-> queried, read |-> read, password |-> password, token |-> token]

NoOutcome ==
    Outcome("none", "", [tag |-> "", user |-> None, err |-> "", cause |-> ""],
            FALSE, None, "", << >>)

\* The value a handler returned, as its caller sees it.
Returned(r) == [tag |-> r.tag, user |-> r.user, err |-> r.err, cause |-> r.cause]

NoLink ==
    [token |-> << >>, uid |-> "", id |-> 0,
     hash |-> PasswordHash("", 0, ""), secret |-> "", ts |-> 0]

NoCall ==
    [op |-> "none", link |-> NoLink, user |-> None, token |-> << >>, kind |-> "",
     secret |-> "", timeout |-> 0, at |-> 0, result |-> ""]

NoCodec ==
    [op |-> "none", num |-> 0, text |-> << >>, kind |-> "", out |-> DecodeOk(None)]

\* The salt the hasher draws next.
fresh_salt == salts + 1
InitSalts == Cardinality(Ids)

\* The table the requests start from: the first row was hashed by an earlier
\* build, under parameters that are obsolete now, the second under the
\* current ones.
InitialParams == [i \in Ids |-> IF i = 1 THEN "legacy" ELSE "current"]

Init ==
    /\ db = [i \in Ids |->
                User(i, StoredUsernames[i], StoredNames[i],
                     PasswordHash(Passwords[i], i, InitialParams[i]), StoredEmails[i])]
    /\ now = 0
    /\ ticks = 0
    /\ salts = InitSalts
    /\ pc = [p \in Procs |-> "idle"]
    /\ local = [p \in Procs |-> IdleLocal]
    /\ result = [p \in Procs |-> NoOutcome]
    /\ outbox = {}
    /\ commits = {}
    /\ call = NoCall
    /\ codec = NoCodec

\* The clock advances by a second or by the reset timeout.
TickSteps == {1, RESET_TIMEOUT_SECS}

Tick(d) ==
    /\ ticks < MaxTicks
    /\ now' = now + d
    /\ ticks' = ticks + 1
    /\ UNCHANGED <<db, salts, pc, local, result, outbox, commits, call, codec>>

\* Usernames a login form may carry: the stored ones, an unknown one, an
\* unknown one of the largest length the column takes, and one beyond it.
CredUsernames ==
    {StoredUsernames[i] : i \in Ids}
    \cup {Username("mallory", 7), Username("a..a", USERNAME_MAX_LEN),
          Username("a..a", USERNAME_MAX_LEN + 1)}

\* User::authenticate up to its return or to the await of the save.
AuthQuery(p, username, password) ==
    /\ pc[p] = "idle"
    /\ IF ~fits_limited_string(username)
       THEN /\ result' = [result EXCEPT ![p] =
                   Outcome("authenticate", "too_long", username_too_long(username.len),
                           FALSE, None, password, << >>)]
            /\ pc' = [pc EXCEPT ![p] = "done"]
            /\ UNCHANGED <<local, salts>>
       ELSE LET found == find_by_username(db, username)
            IN  IF found = None
                THEN /\ result' = [result EXCEPT ![p] =
                            Outcome("authenticate", "no_user", AuthOk(None),
                                    TRUE, None, password, << >>)]
                     /\ pc' = [pc EXCEPT ![p] = "done"]
                     /\ UNCHANGED <<local, salts>>
                ELSE LET user == unwrap(found)
                         v == verify(user.password, password, fresh_salt)
                         m == match_verify(v, user)
                     IN  IF m.save
                         THEN /\ salts < InitSalts + MaxSalts
                              /\ salts' = fresh_salt
                              /\ local' = [local EXCEPT ![p] =
                                     [read |-> found, user |-> m.ret.user,
                                      password |-> password, token |-> << >>,
                                      request |-> NoRequest]]
                              /\ pc' = [pc EXCEPT ![p] = "auth_save"]
                              /\ UNCHANGED result
                         ELSE /\ result' = [result EXCEPT ![p] =
                                     Outcome("authenticate", m.path, m.ret,
                                             TRUE, found, password, << >>)]
                              /\ pc' = [pc EXCEPT ![p] = "done"]
                              /\ UNCHANGED <<local, salts>>
    /\ UNCHANGED <<db, now, ticks, outbox, commits, call, codec>>

\* user.save(db).await, then Ok(Some(user)).
AuthSave(p) ==
    /\ pc[p] = "auth_save"
    /\ db' = save(db, unwrap(local[p].user))
    /\ result' = [result EXCEPT ![p] =
           Outcome("authenticate", "rehash", AuthOk(local[p].user),
                   TRUE, local[p].read, local[p].password, << >>)]
    /\ pc' = [pc EXCEPT ![p] = "done"]
    /\ local' = [local EXCEPT ![p] = IdleLocal]
    /\ UNCHANGED <<now, ticks, salts, outbox, commits, call, codec>>

----------------------------------------------------------------------------
\* forgot_password and reset_password_confirm (forgot_password.rs).

\* URL_SAFE_NO_PAD.encode(user.id().to_string()), for the ids of the model.
uid_encode(id) ==
    CASE id = 1 -> "MQ"
      [] id = 2 -> "Mg"
      [] id = 3 -> "Mw"

\* decode_b64url_to_i64_from_decimal on the uid texts of the model: "MQ",
\* "Mg" and "Mw" are the unpadded base64 of "1", "2" and "3"; "!!" is no
\* base64.
decode_b64url_to_i64_from_decimal(b64) ==
    CASE b64 = "MQ" -> [ok |-> TRUE, val |-> 1]
      [] b64 = "Mg" -> [ok |-> TRUE, val |-> 2]
      [] b64 = "Mw" -> [ok |-> TRUE, val |-> 3]
      [] OTHER -> [ok |-> FALSE, val |-> 0]

UidParams == {"MQ", "Mg", "Mw", "!!"}
Emails == {StoredEmails[i] : i \in Ids} \cup {"nobody@example.com"}

\* A printed reset link: the token and uid of the URL, and for the properties the
\* user, the hash snapshot, the secret and the second it was minted with.
Link(user, secret, clock) ==
    [token |-> make_token(user, secret, clock), uid |-> uid_encode(user.id),
     id |-> user.id, hash |-> user.password, secret |-> secret, ts |-> clock]

\* forgot_password, POST with a valid form: the link is minted for the user
\* the email belongs to, if any.
ForgotPassword(email) ==
    /\ Cardinality(outbox) < MaxLinks
    /\ LET found == find_by_email(db, email)
       IN  outbox' = IF found = None
                     THEN outbox
                     ELSE outbox \cup {Link(unwrap(found), RESET_SECRET, now)}
    /\ UNCHANGED <<db, now, ticks, salts, pc, local, result, commits, call, codec>>

\* Token texts a reset URL may carry: the printed ones, one with an empty
\* timestamp part and one without a dash.
UrlTokens ==
    {l.token : l \in outbox} \cup {<< "-", "a", "b" >>, << "a", "b" >>}

\* The response: the form page (with the error added to it, if any), the
\* redirect to the login page, or no response where the task panicked.
PageOk == [tag |-> "Page", user |-> None, err |-> "", cause |-> ""]
PageErr(msg) == [tag |-> "Page", user |-> None, err |-> msg, cause |-> ""]
Redirect(user) == [tag |-> "Redirect", user |-> Some(user), err |-> "", cause |-> ""]
Panicked == [tag |-> "Panic", user |-> None, err |-> "", cause |-> ""]

\* reset_password_confirm up to its return or to the await of the save.
\* token and uid are Options: the path parameters may be missing.
ResetLoad(p, method, token, uid, password1, password2) ==
    /\ pc[p] = "idle"
    /\ LET finish(path, ret, read, tok) ==
               /\ result' = [result EXCEPT ![p] =
                      Outcome("reset_password_confirm", path, ret,
                              path \notin {"get", "missing_param", "bad_uid"},
                              read, "", tok)]
               /\ pc' = [pc EXCEPT ![p] = "done"]
               /\ UNCHANGED <<local, salts>>
       IN  IF method = "GET"
           THEN finish("get", PageOk, None, << >>)
           ELSE IF token = None \/ uid = None
           THEN finish("missing_param", PageErr("token or uid cannot be empty"), None, << >>)
           ELSE LET user_id == decode_b64url_to_i64_from_decimal(unwrap(uid))
                    tok == unwrap(token)
                IN  IF ~user_id.ok
                    THEN finish("bad_uid", PageErr("uid decode error"), None, << >>)
                    ELSE LET found == get_by_id(db, user_id.val)
                         IN  IF found = None
                             THEN finish("no_user", PageErr("could not find user"),
                                         None, << >>)
                             ELSE IF password1 # password2
                             THEN finish("mismatch", PageErr("passwords do not match."),
                                         None, << >>)
                             ELSE LET user == unwrap(found)
                                      ok == check_token(user, tok, RESET_SECRET,
                                                        RESET_TIMEOUT_SECS, now)
                                  IN  CASE ok = "panic" ->
                                              finish("panic", Panicked, found, tok)
                                        [] ok = "false" ->
                                              finish("invalid_token",
                                                     PageErr("Invalid token or uid"),
                                                     found, tok)
                                        [] ok = "true" ->
                                              /\ salts < InitSalts + MaxSalts
                                              /\ salts' = fresh_salt
                                              /\ local' = [local EXCEPT ![p] =
                                                     [read |-> found,
                                                      user |-> Some(set_password(
                                                          user, password1, fresh_salt)),
                                                      password |-> password1,
                                                      token |-> tok,
                                                      request |-> ResetRequest(
                                                          method, token, uid,
                                                          password1, password2)]]
                                              /\ pc' = [pc EXCEPT ![p] = "reset_save"]
                                              /\ UNCHANGED result
    /\ UNCHANGED <<db, now, ticks, outbox, commits, call, codec>>

\* user.save(&db).await, then the redirect to the login page.
ResetSave(p) ==
    /\ pc[p] = "reset_save"
    /\ LET user == unwrap(local[p].user)
       IN  /\ db' = save(db, user)
           /\ commits' = commits \cup
                  {[token |-> local[p].token, id |-> user.id, hash |-> user.password]}
           /\ result' = [result EXCEPT ![p] =
                  Outcome("reset_password_confirm", "redirect", Redirect(user),
                          TRUE, local[p].read, local[p].password, local[p].token)]
    /\ pc' = [pc EXCEPT ![p] = "done"]
    /\ local' = [local EXCEPT ![p] = IdleLocal]
    /\ UNCHANGED <<now, ticks, salts, outbox, call, codec>>

Login ==
    \E p \in Procs :
        \/ \E username \in CredUsernames, password \in Range(Passwords) :
               AuthQuery(p, username, password)
        \/ AuthSave(p)

\* The requests a client may send to the reset route: a GET, a POST with a
\* path parameter missing, and POSTs with both.
ResetRequests ==
    {ResetRequest("GET", None, None, Passwords[1], Passwords[1])}
    \cup {ResetRequest("POST", None, Some("MQ"), Passwords[1], Passwords[1]),
          ResetRequest("POST", Some(<< "a", "b" >>), None, Passwords[1], Passwords[1])}
    \cup {ResetRequest("POST", Some(t), Some(u), p1, p2) :
             t \in UrlTokens, u \in UidParams,
             p1 \in Range(Passwords), p2 \in Range(Passwords)}

Reset ==
    \E p \in Procs :
        \/ /\ pc[p] = "idle"
           /\ \E r \in ResetRequests :
                  ResetLoad(p, r.method, r.token, r.uid, r.password1, r.password2)
        \/ ResetSave(p)

Forgot == \E email \in Emails : ForgotPassword(email)

Clock == \E d \in TickSteps : Tick(d)

Next == Login \/ Reset \/ Forgot \/ Clock

\* The application: concurrent login and reset requests over one store.
Spec == Init /\ [][Next]_vars

\* Concurrent logins alone.
SpecLogin == Init /\ [][Login]_vars

----------------------------------------------------------------------------
\* ResetToken called directly, as a unit test would: any user value, any
\* secret, any timeout, genuine and tampered token texts.

\* User values: each row of the table as stored, and the same row after its
\* password hash was replaced (the same raw password under a new salt).
UserValues ==
    {User(i, StoredUsernames[i], StoredNames[i], h, StoredEmails[i]) :
        i \in Ids, h \in {PasswordHash(Passwords[1], 1, "legacy"),
                          PasswordHash(Passwords[1], 7, "current")}}

Timeouts == {0, 1, RESET_TIMEOUT_SECS}

ts_part(token) == SubSeq(token, 1, first_dash(token) - 1)
sig_part(token) == SubSeq(token, first_dash(token) + 1, Len(token))

to_upper(c) ==
    IF to_digit(c) >= 10 /\ \E i \in 1..Len(LowerDigits) : LowerDigits[i] = c
    THEN UpperLetters[to_digit(c) - 9]
    ELSE c

\* Token texts derived from a minted token: the token itself and ways of
\* tampering with it.
Tampered(token, clock) ==
    LET ts == ts_part(token)
        sig == sig_part(token)
        n == Len(token)
    IN  {[kind |-> "genuine", token |-> token],
         [kind |-> "flip_sig",
          token |-> set_char(token, n, IF token[n] = "0" THEN "1" ELSE "0")],
         [kind |-> "flip_sig",
          token |-> set_char(token, Len(ts) + 2,
                             IF token[Len(ts) + 2] = "0" THEN "1" ELSE "0")],
         [kind |-> "upper_ts", token |-> [i \in 1..Len(ts) |-> to_upper(ts[i])] \o << "-" >> \o sig],
         [kind |-> "plus_ts", token |-> << "+" >> \o token],
         [kind |-> "zero_ts", token |-> << "0" >> \o token],
         [kind |-> "swap_ts", token |-> Base36_encode(clock) \o << "-" >> \o sig],
         [kind |-> "swap_ts", token |-> Base36_encode(clock + 1) \o << "-" >> \o sig],
         [kind |-> "no_dash", token |-> ts \o sig],
         [kind |-> "empty_ts", token |-> << "-" >> \o sig],
         [kind |-> "bad_ts", token |-> << "!", "!", "-" >> \o sig],
         [kind |-> "big_ts", token |-> << "z", "z", "z", "z", "z", "-" >> \o sig]}

\* Tokens signed for a chosen second: at the edges of the window and beyond.
SignedAt(user, secret, timeout, clock) ==
    {[kind |-> "signed_at", token |-> make_token_with_timestamp(user, secret, ts)] :
        ts \in {t \in {clock + 1, clock - timeout, clock - timeout - 1} : t >= 0 /\ t <= I64_MAX}}

\* ResetToken.make_token(&user, secret)
MintCall(user, secret) ==
    /\ call.op = "none"
    /\ call' = [NoCall EXCEPT !.op = "make_token", !.link = Link(user, secret, now),
                              !.user = Some(user), !.secret = secret, !.at = now]
    /\ UNCHANGED <<db, now, ticks, salts, pc, local, result, outbox, commits, codec>>

\* ResetToken.check_token(&user, token, secret, timeout_secs)
CheckCall(user, secret, timeout, probe) ==
    /\ call.op = "make_token"
    /\ call' = [op |-> "check_token", link |-> call.link, user |-> Some(user),
                token |-> probe.token, kind |-> probe.kind, secret |-> secret,
                timeout |-> timeout, at |-> now,
                result |-> check_token(user, probe.token, secret, timeout, now)]
    /\ UNCHANGED <<db, now, ticks, salts, pc, local, result, outbox, commits, codec>>

Mint == \E user \in UserValues, secret \in Range(Secrets) : MintCall(user, secret)

Check ==
    /\ call.op = "make_token"
    /\ \E user \in UserValues, secret \in Range(Secrets), timeout \in Timeouts :
           \E probe \in Tampered(call.link.token, now)
                        \cup SignedAt(user, secret, timeout, now) :
               CheckCall(user, secret, timeout, probe)

\* One test case is a mint, then a check of some token text at the same or a
\* later second; the verdict ends the case.
ClockOfCase == call.op # "check_token" /\ Clock

NextToken == Mint \/ Check \/ ClockOfCase

SpecToken == Init /\ [][NextToken]_vars

----------------------------------------------------------------------------
\* Base36 called directly, as a unit test would: every number, texts that
\* are no numerals, and other spellings of an encoded number.

\* The numbers of u64.
Nums == 0..U64_MAX

\* Texts that are no numeral of a u64: empty, with a character that is no
\* digit, and with a value beyond u64 (by one, and by far).
OddTexts ==
    {[kind |-> "empty", text |-> << >>],
     [kind |-> "bad_char", text |-> << "!", "!" >>],
     [kind |-> "bad_char", text |-> << "1", "!" >>],
     [kind |-> "bad_char", text |-> << "-", "1" >>],
     [kind |-> "too_big", text |-> to_str_radix(U64_MAX + 1)],
     [kind |-> "too_big", text |-> [i \in 1..14 |-> "z"]]}

\* Spellings derived from an encoded number: the text itself, with a
\* leading zero, in upper case, and with a digit appended.
Respelled(text) ==
    {[kind |-> "genuine", text |-> text],
     [kind |-> "lead_zero", text |-> << "0" >> \o text],
     [kind |-> "upper", text |-> [i \in 1..Len(text) |-> to_upper(text[i])]],
     [kind |-> "shifted", text |-> text \o << "0" >>]}

\* Base36::encode(num)
EncodeCall(n) ==
    /\ codec.op = "none"
    /\ codec' = [NoCodec EXCEPT !.op = "encode", !.num = n, !.text = Base36_encode(n)]
    /\ UNCHANGED <<db, now, ticks, salts, pc, local, result, outbox, commits, call>>

\* Base36::decode(s)
DecodeCall(probe) ==
    /\ codec.op # "decode"
    /\ codec' = [codec EXCEPT !.op = "decode", !.text = probe.text, !.kind = probe.kind,
                              !.out = Base36_decode(probe.text)]
    /\ UNCHANGED <<db, now, ticks, salts, pc, local, result, outbox, commits, call>>

Encode ==
    /\ codec.op = "none"
    /\ \E n \in Nums : EncodeCall(n)

DecodeOdd ==
    /\ codec.op = "none"
    /\ \E probe \in OddTexts : DecodeCall(probe)

DecodeEncoded ==
    /\ codec.op = "encode"
    /\ \E probe \in Respelled(codec.text) : DecodeCall(probe)

NextBase36 == Encode \/ DecodeOdd \/ DecodeEncoded

SpecBase36 == Init /\ [][NextBase36]_vars

----------------------------------------------------------------------------
\* Properties of ResetToken, checked under SpecToken.

\* The last call was a check_token.
Checked == call.op = "check_token"

\* The user value of the last call.
CallUser == unwrap(call.user)

\* The last check was made for the user value and under the secret the
\* token was minted with.
SameUserAndSecret ==
    /\ CallUser.id = call.link.id
    /\ CallUser.password = call.link.hash
    /\ call.secret = call.link.secret

\* The checked token splits at a dash and its left part decodes.
Decodes(token) ==
    first_dash(token) # 0 /\ i64_from_str_radix(ts_part(token)).ok

\* The timestamp the checked token carries.
CarriedTs(token) == i64_from_str_radix(ts_part(token)).val

\* C1: a token minted by make_token(user, secret) is accepted by
\* check_token(user, token, secret, timeout) for every timeout > 0 when it is
\* checked in the second it was minted in, for the same user with the same
\* password hash.
C1_MintThenCheckAccepts ==
    (/\ Checked
     /\ call.token = call.link.token
     /\ SameUserAndSecret
     /\ call.at = call.link.ts
     /\ call.timeout > 0)
    => call.result = "true"

\* C1 witness: a token minted at second 3600 ("2s0") was checked in that
\* second with a positive timeout and accepted.
C1_Witness ==
    /\ Checked
    /\ call.token = call.link.token
    /\ SameUserAndSecret
    /\ call.at = call.link.ts
    /\ call.link.ts = RESET_TIMEOUT_SECS
    /\ call.timeout > 0
    /\ call.result = "true"

\* C3: check_token returns false, and does not panic, for every token
\* without a dash and for every token whose part before the first dash is
\* no decodable base-36 timestamp.
C3_MalformedTokenReturnsFalse ==
    (Checked /\ ~Decodes(call.token)) => call.result = "false"

\* C4: a token whose timestamp decodes to ts is rejected when now - ts < 0
\* or now - ts > timeout_secs, whatever its signature; a correctly signed
\* token is accepted for every age with 0 <= age <= timeout_secs, the age
\* timeout_secs included.
C4_AgeWindow ==
    (Checked /\ Decodes(call.token)) =>
        LET age == call.at - CarriedTs(call.token)
        IN  /\ (age < 0 \/ age > call.timeout) => call.result = "false"
            /\ (/\ 0 <= age
                /\ age <= call.timeout
                /\ call.token = make_token_with_timestamp(
                                    CallUser, call.secret, CarriedTs(call.token)))
               => call.result = "true"

\* C4 witness: a correctly signed token was checked at the age of exactly
\* the timeout, an hour, and accepted.
C4_Witness ==
    /\ Checked
    /\ call.kind = "signed_at"
    /\ Decodes(call.token)
    /\ call.timeout = RESET_TIMEOUT_SECS
    /\ call.at - CarriedTs(call.token) = call.timeout
    /\ call.result = "true"

\* The kinds of tampering that leave a decodable timestamp in the token.
TamperedKinds == {"flip_sig", "swap_ts", "upper_ts", "plus_ts", "zero_ts"}

\* C5: check_token accepts a token only if it is, character for character,
\* make_token_with_timestamp(user, secret, ts) for the timestamp it carries.
\* A minted token with a signature character changed, with its timestamp
\* part replaced by another value or by another spelling of the same value,
\* checked for another user id or under another secret, is rejected.
C5_OnlyExactTokenAccepted ==
    Checked =>
        /\ call.result = "true" =>
              /\ Decodes(call.token)
              /\ call.token = make_token_with_timestamp(
                                  CallUser, call.secret, CarriedTs(call.token))
        /\ (call.kind \in TamperedKinds /\ call.token # call.link.token)
              => call.result = "false"
        /\ (/\ call.token = call.link.token
            /\ (CallUser.id # call.link.id \/ call.secret # call.link.secret))
              => call.result = "false"

\* C5 witness: a token that had expired was given the current second as its
\* timestamp, its signature kept, and was rejected although the new
\* timestamp is inside the window.
C5_Witness ==
    /\ Checked
    /\ call.kind = "swap_ts"
    /\ SameUserAndSecret
    /\ call.at - call.link.ts > call.timeout
    /\ CarriedTs(call.token) = call.at
    /\ call.timeout > 0
    /\ call.result = "false"

----------------------------------------------------------------------------
\* Properties of the application, checked under Spec and SpecLogin.

\* The row a finished handler had read.
ReadRow(p) == unwrap(result[p].read)

\* C2: once the stored password hash of a user differs from the hash a
\* token was minted with, check_token rejects that token for that user, in
\* every later state and for every timeout, also inside the timeout window;
\* reset_password_confirm accepts a printed token only for the user and the
\* hash it was minted with.
C2_HashChangeInvalidatesTokens ==
    /\ \A l \in outbox :
          db[l.id].password # l.hash =>
              \A timeout \in Timeouts :
                  check_token(db[l.id], l.token, l.secret, timeout, now) = "false"
    /\ \A p \in Procs, l \in outbox :
          (/\ pc[p] = "reset_save" \/ result[p].path = "redirect"
           /\ (IF pc[p] = "reset_save" THEN local[p].token ELSE result[p].token) = l.token)
          => LET read == IF pc[p] = "reset_save" THEN unwrap(local[p].read) ELSE ReadRow(p)
             IN  read.id = l.id /\ read.password = l.hash

\* C2 witness: a reset was completed with a printed token; a second request
\* presenting the same token for the same user, still inside the hour, was
\* rejected.
C2_Witness ==
    \E l \in outbox, p \in Procs :
        /\ \E c \in commits : c.token = l.token /\ c.id = l.id
        /\ db[l.id].password # l.hash
        /\ now - l.ts <= RESET_TIMEOUT_SECS
        /\ result[p].path = "invalid_token"
        /\ result[p].token = l.token
        /\ ReadRow(p).id = l.id
        /\ ReadRow(p).password # l.hash

\* C6: a reset token authorizes at most one password change: of all the
\* reset_password_confirm requests presenting one token for one user, in any
\* interleaving, at most one saves a new password hash.
C6_TokenSingleUse ==
    \A c1 \in commits, c2 \in commits :
        (c1.token = c2.token /\ c1.id = c2.id) => c1 = c2

\* C7: User::authenticate returns Ok(None) when no user has the username and
\* when the user exists and the password verifies as Invalid: the two
\* returned values are the same.
C7_NoUserAndWrongPasswordAlike ==
    \A p \in Procs :
        (result[p].op = "authenticate"
         /\ result[p].path \in {"no_user", "invalid_password"})
        => Returned(result[p]) = AuthOk(None)

\* C7 witness: one login named no user, another gave a wrong password for a
\* stored user, and both returned the same value.
C7_Witness ==
    \E p \in Procs, q \in Procs :
        /\ result[p].path = "no_user"
        /\ result[q].path = "invalid_password"
        /\ result[q].read # None
        /\ Returned(result[p]) = Returned(result[q])

\* C8: when User::authenticate is called with the correct password for a
\* user whose hash verifies as OkObsolete(new_hash), its save stores new_hash
\* for that user and leaves id, username, name and email of the row and
\* every other row as they were, and it returns Ok(Some(user)) with the row
\* as stored.
C8_RehashPersistsNewHash ==
    [][\A p \in Procs :
          (pc[p] = "auth_save" /\ pc'[p] = "done") =>
              LET read == unwrap(local[p].read)
                  v == verify(read.password, local[p].password,
                              unwrap(local[p].user).password.salt)
              IN  /\ v.tag = "OkObsolete"
                  /\ db'[read.id].password = v.new_hash
                  /\ db'[read.id].password.params = "current"
                  /\ db'[read.id].id = db[read.id].id
                  /\ db'[read.id].username = db[read.id].username
                  /\ db'[read.id].name = db[read.id].name
                  /\ db'[read.id].email = db[read.id].email
                  /\ \A j \in Ids \ {read.id} : db'[j] = db[j]
                  /\ Returned(result'[p]) = AuthOk(Some(db'[read.id]))
                  /\ get_by_id(db', read.id) # None
                  /\ \A u \in get_by_id(db', read.id) : u.password = v.new_hash]_vars

\* C8 witness: a login has taken the rehash branch for a row read with a
\* legacy hash, and the table holds the hash it returned.
C8_Witness ==
    \E p \in Procs :
        /\ result[p].path = "rehash"
        /\ result[p].tag = "Ok"
        /\ ReadRow(p).password.params = "legacy"
        /\ db[ReadRow(p).id] = unwrap(result[p].user)
        /\ db[ReadRow(p).id].password.params = "current"

\* C9: User::authenticate with a username of more than 254 characters fails
\* with InvalidCredentialsFormat, which is neither Ok(None) nor the
\* BackendError variant of store failures, and does not query the store.
C9_TooLongIsValidationError ==
    \A p \in Procs :
        result[p].path = "too_long" =>
            /\ result[p].tag = "Err"
            /\ result[p].err = "InvalidCredentialsFormat"
            /\ result[p].err # "BackendError"
            /\ ~result[p].queried

\* C10: when two concurrent User::authenticate calls with the correct
\* password read the same obsolete hash and both save, in any interleaving,
\* each returns Ok(Some(user)), and the hash stored at the end has the
\* current parameters and verifies that password as Ok.
C10_ConcurrentRehash ==
    \A p \in Procs :
        result[p].path = "rehash" =>
            /\ result[p].tag = "Ok"
            /\ result[p].user # None
            /\ unwrap(result[p].user).id = ReadRow(p).id
            /\ db[ReadRow(p).id].password.params = "current"
            /\ verify(db[ReadRow(p).id].password, result[p].password, 0).tag = "Ok"

\* C10 witness: both logins read the same legacy hash, both saved a hash of
\* their own, and the table holds one of the two.
C10_Witness ==
    /\ \A p \in Procs : result[p].path = "rehash"
    /\ ReadRow(1) = ReadRow(2)
    /\ ReadRow(1).password.params = "legacy"
    /\ unwrap(result[1].user).password # unwrap(result[2].user).password
    /\ \E p \in Procs : db[ReadRow(p).id] = unwrap(result[p].user)

\* C13: when a User::authenticate that takes the rehash branch and a
\* reset_password_confirm that commits another password for the same user
\* have both completed, in any interleaving, the stored hash verifies the
\* password set by the reset and not the password from before the reset:
\* the whole-row save of authenticate does not overwrite a password change
\* committed after its read.
C13_RehashKeepsCommittedReset ==
    \A p \in Procs, q \in Procs :
        (/\ result[p].path = "rehash"
         /\ result[q].path = "redirect"
         /\ ReadRow(p).id = ReadRow(q).id
         /\ result[q].password # result[p].password)
        => /\ verify(db[ReadRow(q).id].password, result[q].password, 0).tag # "Invalid"
           /\ verify(db[ReadRow(q).id].password, result[p].password, 0).tag = "Invalid"

\* The token text is, at clock reading `clock`, a token of the user value
\* under the secret of the reset route, not older than the reset timeout.
ValidResetToken(user, token, clock) ==
    /\ Decodes(token)
    /\ 0 <= clock - CarriedTs(token)
    /\ clock - CarriedTs(token) <= RESET_TIMEOUT_SECS
    /\ token = make_token_with_timestamp(user, RESET_SECRET, CarriedTs(token))

\* C14: reset_password_confirm changes the stored password hash of a user
\* only on a POST whose uid decodes to the id of an existing user, whose
\* password1 equals password2 and for which check_token(user, token, secret,
\* 3600) was true for the hash that user had when it was read; on every
\* path that returns without the save (GET, missing token or uid,
\* undecodable uid, unknown user, mismatched passwords, rejected token) the
\* table is unchanged, and the save changes the password field of the
\* targeted row and nothing else.
C14_ResetChangesOnlyOnValidPost ==
    [][\A p \in Procs :
          /\ (pc[p] = "idle" /\ result'[p].op = "reset_password_confirm") => db' = db
          /\ (pc[p] = "idle" /\ pc'[p] = "reset_save") =>
                LET r == local'[p].request
                    user_id == decode_b64url_to_i64_from_decimal(unwrap(r.uid))
                IN  /\ db' = db
                    /\ r.method = "POST"
                    /\ r.token # None
                    /\ r.uid # None
                    /\ user_id.ok
                    /\ user_id.val \in Ids
                    /\ local'[p].read = Some(db[user_id.val])
                    /\ r.password1 = r.password2
                    /\ check_token(db[user_id.val], unwrap(r.token), RESET_SECRET,
                                   RESET_TIMEOUT_SECS, now) = "true"
                    /\ ValidResetToken(db[user_id.val], unwrap(r.token), now)
          /\ (pc[p] = "reset_save" /\ pc'[p] = "done") =>
                LET r == local[p].request
                    id == decode_b64url_to_i64_from_decimal(unwrap(r.uid)).val
                IN  /\ id = unwrap(local[p].read).id
                    /\ \A j \in Ids \ {id} : db'[j] = db[j]
                    /\ db'[id] = [db[id] EXCEPT !.password = db'[id].password]
                    /\ verify(db'[id].password, r.password1, 0).tag = "Ok"
                    /\ result'[p].path = "redirect"]_vars

\* C14 witness: one request has changed the password of the user its uid
\* names and was redirected; another, with two different passwords, got the
\* form back, and the table holds what the first one saved.
C14_Witness ==
    \E p \in Procs, q \in Procs :
        /\ result[p].path = "redirect"
        /\ result[q].path = "mismatch"
        /\ db[ReadRow(p).id].password = unwrap(result[p].user).password
        /\ db[ReadRow(p).id].password # ReadRow(p).password
        /\ verify(db[ReadRow(p).id].password, result[p].password, 0).tag = "Ok"

----------------------------------------------------------------------------
\* Properties of Base36, checked under SpecBase36.

\* The last call was a decode.
Decoded == codec.op = "decode"

\* The text is empty or holds a character that is no radix-36 digit.
NoNumeral(text) == text = << >> \/ \E i \in 1..Len(text) : to_digit(text[i]) < 0

\* The text is a numeral whose value is beyond u64.
BeyondU64(text) == ~NoNumeral(text) /\ biguint_digits(text, 0) > U64_MAX

\* C11: Base36::decode returns none, and reports no error, for the empty
\* text, for a text with a character outside the radix-36 digits, and for a
\* numeral whose value exceeds u64.
C11_DecodeReturnsNoneNeverErr ==
    (Decoded /\ (NoNumeral(codec.text) \/ BeyondU64(codec.text)))
    => codec.out = DecodeOk(None)

\* The text is written with the digits 0-9a-z and has no leading zero.
ShortestForm(text) ==
    /\ Len(text) >= 1
    /\ \A i \in 1..Len(text) : text[i] \in Range(LowerDigits)
    /\ Len(text) > 1 => text[1] # "0"

\* C12: Base36::decode(Base36::encode(n)) gives n for every u64 n, and
\* encode writes the shortest radix-36 text, with the digits 0-9a-z and
\* without leading zeros: no spelling that decodes to n is shorter.
C12_EncodeDecodeRoundTrip ==
    /\ codec.op = "encode" => ShortestForm(codec.text)
    /\ (Decoded /\ codec.kind = "genuine") =>
           /\ codec.out = DecodeOk(Some(codec.num))
           /\ ShortestForm(codec.text)
    /\ (Decoded /\ codec.kind \in {"lead_zero", "upper", "shifted"}
         /\ codec.out = DecodeOk(Some(codec.num)))
        => Len(codec.text) >= Len(Base36_encode(codec.num))

\* C12 witness: u64::MAX was encoded, in more than one digit, and decoded
\* back to itself.
C12_Witness ==
    /\ Decoded
    /\ codec.kind = "genuine"
    /\ codec.num = U64_MAX
    /\ Len(codec.text) > 1
    /\ codec.out = DecodeOk(Some(U64_MAX))

====
